---- MODULE Spec2Model ----
(***************************************************************************)
(* get_repos (cmd/get_repos/get_repos.go): the repository index builder,   *)
(* the repo-sync worker pool, the shard-scan worker pool and the final     *)
(* report, as one state machine.                                           *)
(*                                                                         *)
(* Strings are sequences of one-character strings, so that strings.Split,  *)
(* path concatenation and sort.Strings are computed, not assumed.          *)
(***************************************************************************)
EXTENDS Integers, Sequences, FiniteSets, Bags, TLC

VARIABLES
  pc,          \* position of the main goroutine ("aborted" once the process has died)
  fatal,       \* cause of the abort ("" while the process lives)
  ctx,         \* lib.Ctx fields read by this program
  projects,    \* getRepos: projects.Projects, until the first shard is visited
  dbs,         \* getRepos / main: map[string]bool of enabled shards (its key set)
  grTodo,      \* getRepos: shards the range over dbs has not visited yet
  cons,        \* getRepos: connections opened and not yet closed (deferred Close)
  rowsOf,      \* getRepos: rows each visited shard's query returned
  allRepos,    \* getRepos / processRepos: org -> list of "org/repo"
  fs,          \* file system facts fixed so far: cleaned path -> PathStates
  thrN,        \* pools: result of lib.GetThreadsNum(ctx)
  chanPool,    \* pools: window of result channels, oldest first
  allOkRepos,  \* processRepos: collected non-empty results
  checked,     \* processRepos: number of repositories dispatched
  prTodo,      \* processRepos: orgs the range over allRepos has not visited yet
  org,         \* processRepos: org of the current outer iteration
  owd,         \* processRepos: directory of the current org
  repoIdx,     \* processRepos: index of the next repo in allRepos[org]
  drainIdx,    \* pools: index of the next channel in the final range over chanPool
  units,       \* processRepo goroutines: channel -> record
  recvd,       \* values the dispatcher received, per channel
  pcTodo,      \* processCommits: shards the range over dbs has not visited yet
  dbUnits,     \* processCommitsDB goroutines: channel -> record
  out          \* what the process wrote: stdout blocks and log lines

vars == <<pc, fatal, ctx, projects, dbs, grTodo, cons, rowsOf, allRepos, fs,
          thrN, chanPool, allOkRepos, checked, prTodo, org, owd, repoIdx,
          drainIdx, units, recvd, pcTodo, dbUnits, out>>

----------------------------------------------------------------------------
(* Bounds of the model *)

\* largest number of projects in projects.yaml
MaxProjects == 2
\* largest number of gha_repos rows over all shards
MaxRepos == 3
\* largest value lib.GetThreadsNum returns
MaxThr == 2

\* database names a project can point at
Shards == {"A", "B"}

\* repository names a gha_repos table can hold
TableNames ==
  { <<"a", "/", "x">>, <<"b", "/", "y">>, <<"a", "/">>,
    <<"a", "/", "x", "/", "y">>, <<"a", "x">> }

\* ctx.ReposDir
ReposDir == <<"r", "/">>

\* byte order of the characters that occur
Alphabet == <<"/", "a", "b", "r", "x", "y">>

----------------------------------------------------------------------------
(* Strings *)

SeqsUpTo(S, n) == UNION {[1..k -> S] : k \in 0..n}

EmptyMap == [k \in {} |-> <<>>]

Ord(c) == CHOOSE i \in DOMAIN Alphabet : Alphabet[i] = c

RECURSIVE StrLess(_, _)
\* a < b on Go strings (bytewise lexicographic), as sort.Strings compares
StrLess(a, b) ==
  IF b = <<>> THEN FALSE
  ELSE IF a = <<>> THEN TRUE
  ELSE IF Head(a) = Head(b) THEN StrLess(Tail(a), Tail(b))
  ELSE Ord(Head(a)) < Ord(Head(b))

RECURSIVE InsertSorted(_, _)
InsertSorted(x, s) ==
  IF s = <<>> THEN <<x>>
  ELSE IF StrLess(x, Head(s)) THEN <<x>> \o s
  ELSE <<Head(s)>> \o InsertSorted(x, Tail(s))

RECURSIVE SortStrings(_)
\* sort.Strings
SortStrings(s) ==
  IF s = <<>> THEN <<>> ELSE InsertSorted(Head(s), SortStrings(Tail(s)))

RECURSIVE SplitAcc(_, _, _)
SplitAcc(s, cur, acc) ==
  IF s = <<>> THEN Append(acc, cur)
  ELSE IF Head(s) = "/" THEN SplitAcc(Tail(s), <<>>, Append(acc, cur))
  ELSE SplitAcc(Tail(s), Append(cur, Head(s)), acc)

\* strings.Split(s, "/")
Split(s) == SplitAcc(s, <<>>, <<>>)

\* name like '%/%'
Like(s) == \E i \in DOMAIN s : s[i] = "/"

RECURSIVE Perms(_)
\* every order in which the rows of a set can be returned
Perms(S) ==
  IF S = {} THEN {<<>>}
  ELSE UNION {{<<x>> \o p : p \in Perms(S \ {x})} : x \in S}

\* select distinct name from gha_repos where name like '%/%'
QueryRepos(table) == Perms({n \in table : Like(n)})

\* the gha_repos tables of at most n rows
Tables(n) == {t \in SUBSET TableNames : Cardinality(t) <= n}

----------------------------------------------------------------------------
(* lib *)

\* lib.FatalOnError(err): TRUE when the process is terminated
FatalOnError(err) == err # "nil"

\* lib.GetThreadsNum(ctx)
GetThreadsNum(c) == c.NCPUs

----------------------------------------------------------------------------
(* File system *)

\* what os.Stat can find at a path; "newdir" is a directory this run created
PathStates == {"absent", "dir", "file", "denied"}

RECURSIVE Collapse(_)
Collapse(p) ==
  IF Len(p) < 2 THEN p
  ELSE IF p[1] = "/" /\ p[2] = "/" THEN Collapse(Tail(p))
  ELSE <<Head(p)>> \o Collapse(Tail(p))

StripSlash(p) == IF p[Len(p)] = "/" THEN SubSeq(p, 1, Len(p) - 1) ELSE p

\* the file the operating system resolves a path to
Clean(p) == StripSlash(Collapse(p))

RECURSIVE Parent(_)
Parent(p) ==
  IF p = <<>> THEN <<>>
  ELSE IF p[Len(p)] = "/" THEN SubSeq(p, 1, Len(p) - 1)
  ELSE Parent(SubSeq(p, 1, Len(p) - 1))

IsDir(st) == st \in {"dir", "newdir"}

\* the states os.Stat can find at path p, given the facts f fixed so far:
\* nothing exists below a directory this run has just created
StatStates(f, p) ==
  LET c  == Clean(p)
      up == Parent(c)
  IN IF c \in DOMAIN f THEN {f[c]}
     ELSE IF up \in DOMAIN f /\ f[up] = "newdir" THEN {"absent"}
     ELSE PathStates

SetPath(f, p, st) ==
  LET c == Clean(p)
  IN [q \in DOMAIN f \cup {c} |-> IF q = c THEN st ELSE f[q]]

\* dirExists without the stat.IsDir() test: whatever exists is a directory
dirExistsAny(f, path) ==
  LET p == IF SubSeq(path, Len(path), Len(path)) = <<"/">>
           THEN SubSeq(path, 1, Len(path) - 1) ELSE path
  IN { [exists |-> st \in {"dir", "newdir", "file"},
        err    |-> IF st = "denied" THEN "stat" ELSE "nil",
        fs     |-> SetPath(f, p, st)] : st \in StatStates(f, p) }

\* dirExists(path): the possible results (exists, err) with the facts they fix
dirExists(f, path) ==
  LET p == IF SubSeq(path, Len(path), Len(path)) = <<"/">>
           THEN SubSeq(path, 1, Len(path) - 1) ELSE path
  IN { [exists |-> IsDir(st),
        err    |-> CASE st = "absent" -> "nil"
                     [] st = "denied" -> "stat"
                     [] IsDir(st)     -> "nil"
                     [] OTHER         -> "exists, but is not a directory",
        fs     |-> SetPath(f, p, st)] : st \in StatStates(f, p) }

\* os.Mkdir(path, 0755) on a path found absent
Mkdir(f, path) ==
  { [err |-> "nil", fs |-> SetPath(f, path, "newdir")],
    [err |-> "mkdir", fs |-> f] }

\* the "exists or Mkdir it" block processRepos runs on wd and on every owd:
\* the possible (err, fs); a non-nil err went to lib.FatalOnError
EnsureDir(f, path) ==
  UNION { IF FatalOnError(r.err) THEN {[err |-> r.err, fs |-> r.fs]}
          ELSE IF r.exists THEN {[err |-> "nil", fs |-> r.fs]}
          ELSE UNION { IF FatalOnError(m.err) THEN {[err |-> m.err, fs |-> m.fs]}
                       ELSE { [err |-> IF FatalOnError(r2.err) THEN r2.err
                                       ELSE IF ~r2.exists
                                            THEN "failed to create directory"
                                       ELSE "nil",
                               fs  |-> r2.fs] : r2 \in dirExists(m.fs, path) }
                       : m \in Mkdir(r.fs, path) }
          : r \in dirExists(f, path) }

----------------------------------------------------------------------------
(* Initial state: main after ctx.Init() *)

NoFatal == [at |-> "", why |-> "", by |-> <<>>]

Init ==
  /\ pc = "getRepos"
  /\ fatal = NoFatal
  /\ ctx \in [ProcessRepos : BOOLEAN, ProcessCommits : BOOLEAN,
              ExternalInfo : BOOLEAN, NCPUs : 1..MaxThr]
  /\ projects = <<>>
  /\ dbs = {}
  /\ grTodo = {}
  /\ cons = {}
  /\ rowsOf = EmptyMap
  /\ allRepos = EmptyMap
  /\ fs = EmptyMap
  /\ thrN = 0
  /\ chanPool = <<>>
  /\ allOkRepos = <<>>
  /\ checked = 0
  /\ prTodo = {}
  /\ org = <<>>
  /\ owd = <<>>
  /\ repoIdx = 0
  /\ drainIdx = 0
  /\ units = EmptyMap
  /\ recvd = EmptyMap
  /\ pcTodo = {}
  /\ dbUnits = EmptyMap
  /\ out = [stdout |-> <<>>, log |-> <<>>]

getReposVars == <<projects, dbs, grTodo, cons, rowsOf, allRepos>>
poolVars == <<thrN, chanPool, drainIdx>>
reposVars == <<allOkRepos, checked, prTodo, org, owd, repoIdx, units, recvd>>
commitsVars == <<pcTodo, dbUnits>>

\* lib.FatalOnError was handed a non-nil error: the process is gone, and its
\* memory, goroutines, channels and connections with it; what stays is the
\* cause (at: the function, why: the error, by: what that function held), the
\* files and the output
Die(at, why, by) ==
  /\ pc' = "aborted"
  /\ fatal' = [at |-> at, why |-> why, by |-> by]
  /\ projects' = <<>>
  /\ dbs' = {}
  /\ grTodo' = {}
  /\ cons' = {}
  /\ rowsOf' = EmptyMap
  /\ allRepos' = EmptyMap
  /\ thrN' = 0
  /\ chanPool' = <<>>
  /\ drainIdx' = 0
  /\ allOkRepos' = <<>>
  /\ checked' = 0
  /\ prTodo' = {}
  /\ org' = <<>>
  /\ owd' = <<>>
  /\ repoIdx' = 0
  /\ units' = EmptyMap
  /\ recvd' = EmptyMap
  /\ pcTodo' = {}
  /\ dbUnits' = EmptyMap
  /\ UNCHANGED <<ctx, out>>

----------------------------------------------------------------------------
(* getRepos *)

\* the contents projects.yaml can have
Manifests == SeqsUpTo([PDB : Shards, Disabled : BOOLEAN], MaxProjects)

\* lines 48-54: the set of PDBs of the projects that are not disabled
EnabledDBs(projs) == {projs[i].PDB : i \in {j \in DOMAIN projs : ~projs[j].Disabled}}

\* lines 42-54: read and parse projects.yaml, collect the enabled shards
GetReposReadProjects ==
  /\ pc = "getRepos"
  /\ \/ \E err \in {"read projects.yaml", "yaml.Unmarshal"} :
          /\ FatalOnError(err)
          /\ Die("getRepos", err, <<>>)
          /\ UNCHANGED fs
     \/ \E projs \in Manifests :
          /\ projects' = projs
          /\ dbs' = EnabledDBs(projs)
          /\ grTodo' = EnabledDBs(projs)
          /\ pc' = "getRepos_dbs"
          /\ UNCHANGED <<fatal, ctx, cons, rowsOf, allRepos, fs, poolVars,
                         reposVars, commitsVars, out>>

RECURSIVE AddReposDedup(_, _)
\* a repo name already in its org's list is not appended again
AddReposDedup(all, repos) ==
  IF repos = <<>> THEN [err |-> "nil", all |-> all]
  ELSE LET repo == Head(repos)
           ary  == Split(repo)
       IN IF Len(ary) # 2
          THEN [err |-> "invalid repo name", all |-> all]
          ELSE LET o    == ary[1]
                   base == IF o \in DOMAIN all THEN all
                           ELSE [k \in DOMAIN all \cup {o} |->
                                   IF k = o THEN <<>> ELSE all[k]]
               IN IF \E i \in DOMAIN base[o] : base[o][i] = repo
                  THEN AddReposDedup(base, Tail(repos))
                  ELSE AddReposDedup([base EXCEPT ![o] = Append(@, repo)],
                                     Tail(repos))

RECURSIVE AddRepos(_, _)
\* lines 76-89: split every repo name and append it to its org's list;
\* stops at the first name lib.FatalOnError is called for
AddRepos(all, repos) ==
  IF repos = <<>> THEN [err |-> "nil", all |-> all]
  ELSE LET repo == Head(repos)
           ary  == Split(repo)
       IN IF Len(ary) # 2
          THEN [err |-> "invalid repo name", all |-> all]
          ELSE LET o    == ary[1]
                   base == IF o \in DOMAIN all THEN all
                           ELSE [k \in DOMAIN all \cup {o} |->
                                   IF k = o THEN <<>> ELSE all[k]]
               IN AddRepos([base EXCEPT ![o] = Append(@, repo)], Tail(repos))

RECURSIVE SumLen(_, _)
SumLen(f, S) ==
  IF S = {} THEN 0
  ELSE LET k == CHOOSE x \in S : TRUE IN Len(f[k]) + SumLen(f, S \ {k})

\* lines 57-90, one iteration of the range over dbs; the projects are not
\* read again after line 54
GetReposDB(db) ==
  /\ pc = "getRepos_dbs"
  /\ db \in grTodo
  /\ \/ \* lib.PgConnDB, con.Query, rows.Scan or rows.Err fails
        \E err \in {"connect", "query", "scan", "rows"} :
          /\ FatalOnError(err)
          /\ Die("getRepos", err, [db |-> db])
          /\ UNCHANGED fs
     \/ \E table \in Tables(MaxRepos - SumLen(rowsOf, DOMAIN rowsOf)) :
        \E repos \in QueryRepos(table) :
          LET r == AddRepos(allRepos, repos)
          IN IF FatalOnError(r.err)
             THEN /\ Die("getRepos", r.err, [db |-> db, repos |-> repos, all |-> r.all])
                  /\ UNCHANGED fs
             ELSE /\ grTodo' = grTodo \ {db}
                  /\ cons' = cons \cup {db}
                  /\ rowsOf' = [k \in DOMAIN rowsOf \cup {db} |->
                                  IF k = db THEN repos ELSE rowsOf[k]]
                  /\ allRepos' = r.all
                  /\ projects' = <<>>
                  /\ UNCHANGED <<pc, fatal, ctx, dbs, fs, poolVars,
                                 reposVars, commitsVars, out>>

\* lines 350-352: main decides whether to run processCommits
MainCommits(c) == IF c.ProcessCommits THEN "processCommits" ELSE "main_end"

\* lines 92-94 and 346-352: the deferred Close calls run, getRepos returns
\* and main decides whether to run processRepos; the map is not read again
\* when it does not
GetReposReturn ==
  /\ pc = "getRepos_dbs"
  /\ grTodo = {}
  /\ cons' = {}
  /\ projects' = <<>>
  /\ rowsOf' = EmptyMap
  /\ allRepos' = IF ctx.ProcessRepos THEN allRepos ELSE EmptyMap
  /\ pc' = IF ctx.ProcessRepos THEN "processRepos" ELSE MainCommits(ctx)
  /\ UNCHANGED <<fatal, ctx, dbs, grTodo, fs, poolVars, reposVars,
                 commitsVars, out>>

----------------------------------------------------------------------------
(* processRepo: one goroutine per dispatched repository *)

\* lib.ExecCommand(ctx, {"git", "clone", url, rwd}, env) with ctx.ExecFatal
\* false: the possible results with the file system they leave
ExecClone(f, rwd) ==
  { [res |-> "nil", fs |-> SetPath(f, rwd, "dir")],
    [res |-> "exit status", fs |-> f] }

\* lib.ExecCommand(ctx, {"git_reset_pull.sh", rwd}, env) with ctx.ExecFatal false
ExecPull(f, rwd) ==
  { [res |-> "nil", fs |-> f],
    [res |-> "exit status", fs |-> f] }

\* the two branches exchanged
TransitionSwapped(exists) == IF exists THEN "clone" ELSE "pull"

\* line 100: the branch taken on the result of dirExists(rwd)
Transition(exists) == IF ~exists THEN "clone" ELSE "pull"

\* lines 112-119, 135-142, 147: the value sent for a command result
Outcome(res, orgRepo) == IF res # "nil" THEN <<>> ELSE orgRepo

\* a send on the channel made before its own
SendChanPrev(u) == IF u.ch > 1 THEN u.ch - 1 ELSE u.ch

\* the channel processRepo sends on: its parameter ch
SendChan(u) == u.ch

\* lines 98-100: dirExists(rwd), FatalOnError, choice of the command
ProcessRepoStat(g) ==
  /\ pc # "aborted"
  /\ units[g].pc = "start"
  /\ \E r \in dirExists(fs, units[g].rwd) :
       /\ fs' = r.fs
       /\ IF FatalOnError(r.err)
          THEN Die("processRepo", r.err,
                   [unit  |-> [units[g] EXCEPT !.pre = r.fs[Clean(units[g].rwd)]],
                    recvd |-> recvd[units[g].ch]])
          ELSE /\ units' = [units EXCEPT
                              ![g].pre = r.fs[Clean(units[g].rwd)],
                              ![g].pc = Transition(r.exists)]
               /\ UNCHANGED <<pc, fatal, ctx, getReposVars, poolVars,
                              allOkRepos, checked, prTodo, org, owd, repoIdx,
                              recvd, commitsVars, out>>

\* a failed command makes the goroutine return without its send
ProcessRepoExecNoSendOnFail(g) ==
  /\ pc # "aborted"
  /\ units[g].pc \in {"clone", "pull"}
  /\ \E r \in IF units[g].pc = "clone" THEN ExecClone(fs, units[g].rwd)
                                      ELSE ExecPull(fs, units[g].rwd) :
       /\ fs' = r.fs
       /\ units' = [units EXCEPT ![g].pc = IF r.res = "nil" THEN "send"
                                           ELSE "returned",
                                 ![g].cmd = units[g].pc,
                                 ![g].res = r.res,
                                 ![g].val = Outcome(r.res, units[g].orgRepo)]
  /\ UNCHANGED <<pc, fatal, ctx, getReposVars, poolVars, allOkRepos, checked,
                 prTodo, org, owd, repoIdx, recvd, commitsVars, out>>

\* lines 101-146: run git clone or git_reset_pull.sh, then block in the send
ProcessRepoExec(g) ==
  /\ pc # "aborted"
  /\ units[g].pc \in {"clone", "pull"}
  /\ \E r \in IF units[g].pc = "clone" THEN ExecClone(fs, units[g].rwd)
                                      ELSE ExecPull(fs, units[g].rwd) :
       /\ fs' = r.fs
       /\ units' = [units EXCEPT ![g].pc = "send",
                                 ![g].cmd = units[g].pc,
                                 ![g].res = r.res,
                                 ![g].val = Outcome(r.res, units[g].orgRepo)]
  /\ UNCHANGED <<pc, fatal, ctx, getReposVars, poolVars, allOkRepos, checked,
                 prTodo, org, owd, repoIdx, recvd, commitsVars, out>>

\* the goroutines blocked in a send on channel c
Senders(c) == {g \in DOMAIN units : units[g].pc = "send" /\ SendChan(units[g]) = c}

\* res := <-ch completes one blocked send: the sender goes on to its end
Delivered(us, g) == [us EXCEPT ![g].pc = "done"]

\* the record of the receive on channel c from goroutine g
Received(rc, c, g, v) == [rc EXCEPT ![c] = Append(@, [from |-> g, val |-> v])]

----------------------------------------------------------------------------
(* processRepos *)

\* lines 156-177: ensure ctx.ReposDir exists, set up the pool
ProcessReposInit ==
  /\ pc = "processRepos"
  /\ \E e \in EnsureDir(fs, ReposDir) :
       /\ fs' = e.fs
       /\ IF FatalOnError(e.err)
          THEN Die("processRepos", e.err, [path |-> ReposDir])
          ELSE /\ thrN' = GetThreadsNum(ctx)
               /\ prTodo' = DOMAIN allRepos
               /\ drainIdx' = 1
               /\ pc' = IF DOMAIN allRepos = {} THEN "processRepos_drain"
                        ELSE "processRepos_orgs"
               /\ UNCHANGED <<fatal, ctx, getReposVars, chanPool, allOkRepos,
                              checked, org, owd, repoIdx, units, recvd,
                              commitsVars, out>>

\* lines 179-192: next org of the range over allRepos, ensure its directory
ProcessReposOrg(o) ==
  /\ pc = "processRepos_orgs"
  /\ o \in prTodo
  /\ \E e \in EnsureDir(fs, ReposDir \o o) :
       /\ fs' = e.fs
       /\ IF FatalOnError(e.err)
          THEN Die("processRepos", e.err, [path |-> ReposDir \o o])
          ELSE /\ prTodo' = prTodo \ {o}
               /\ org' = o
               /\ owd' = ReposDir \o o
               /\ repoIdx' = 1
               /\ pc' = "processRepos_repos"
               /\ UNCHANGED <<fatal, ctx, getReposVars, poolVars, allOkRepos,
                              checked, units, recvd, commitsVars, out>>

\* the loops left for the return, without the final range over chanPool
AfterItemNoDrain(idx) ==
  IF idx <= Len(allRepos[org]) THEN "processRepos_repos"
  ELSE IF prTodo # {} THEN "processRepos_orgs"
  ELSE "processRepos_ret"

\* where the loops of lines 179-212 go on when the next repo has index idx
AfterItem(idx) ==
  IF idx <= Len(allRepos[org]) THEN "processRepos_repos"
  ELSE IF prTodo # {} THEN "processRepos_orgs"
  ELSE "processRepos_drain"

\* the window test one too late
WindowFullOffByOne(pool, n) == Len(pool) = n + 1

\* the receive taken after every dispatch, whatever the limit
WindowFullAlways(pool, n) == Len(pool) >= 1

\* lines 203, 330: the window is full
WindowFull(pool, n) == Len(pool) = n

\* the final range stops one channel short
DrainDoneEarly(idx, pool) == idx >= Len(pool)

\* lines 213, 336: the final range over chanPool has visited every channel
DrainDone(idx, pool) == idx > Len(pool)

\* lines 195, 327: make(chan ...)
NewChan == Cardinality(DOMAIN recvd) + 1

\* the goroutine counted only when no receive follows its start
ProcessReposDispatchCountLate ==
  /\ pc = "processRepos_repos"
  /\ LET orgRepo == allRepos[org][repoIdx]
         ch      == NewChan
         ary     == Split(orgRepo)
         repo    == ary[2]
         rwd     == owd \o <<"/">> \o repo
         g       == Cardinality(DOMAIN units) + 1
     IN /\ chanPool' = Append(chanPool, ch)
        /\ recvd' = [c \in DOMAIN recvd \cup {ch} |->
                       IF c = ch THEN <<>> ELSE recvd[c]]
        /\ units' = [k \in DOMAIN units \cup {g} |->
                       IF k = g
                       THEN [ch |-> ch, orgRepo |-> orgRepo, rwd |-> rwd,
                             pc |-> "start", pre |-> "none", cmd |-> "none",
                             res |-> "none", val |-> <<>>]
                       ELSE units[k]]
        /\ checked' = IF WindowFull(Append(chanPool, ch), thrN)
                     THEN checked ELSE checked + 1
        /\ repoIdx' = repoIdx + 1
        /\ pc' = IF WindowFull(Append(chanPool, ch), thrN)
                 THEN "processRepos_recv"
                 ELSE AfterItem(repoIdx + 1)
  /\ UNCHANGED <<fatal, ctx, getReposVars, fs, thrN, allOkRepos, prTodo, org,
                 owd, drainIdx, commitsVars, out>>

\* lines 194-203: make the channel, start the goroutine, count it
ProcessReposDispatch ==
  /\ pc = "processRepos_repos"
  /\ LET orgRepo == allRepos[org][repoIdx]
         ch      == NewChan
         ary     == Split(orgRepo)
         repo    == ary[2]
         rwd     == owd \o <<"/">> \o repo
         g       == Cardinality(DOMAIN units) + 1
     IN /\ chanPool' = Append(chanPool, ch)
        /\ recvd' = [c \in DOMAIN recvd \cup {ch} |->
                       IF c = ch THEN <<>> ELSE recvd[c]]
        /\ units' = [k \in DOMAIN units \cup {g} |->
                       IF k = g
                       THEN [ch |-> ch, orgRepo |-> orgRepo, rwd |-> rwd,
                             pc |-> "start", pre |-> "none", cmd |-> "none",
                             res |-> "none", val |-> <<>>]
                       ELSE units[k]]
        /\ checked' = checked + 1
        /\ repoIdx' = repoIdx + 1
        /\ pc' = IF WindowFull(Append(chanPool, ch), thrN)
                 THEN "processRepos_recv"
                 ELSE AfterItem(repoIdx + 1)
  /\ UNCHANGED <<fatal, ctx, getReposVars, fs, thrN, allOkRepos, prTodo, org,
                 owd, drainIdx, commitsVars, out>>

\* every result kept, the empty ones too
CollectAll(ok, res) == Append(ok, res)

\* lines 207-209, 215-217: keep a non-empty result
Collect(ok, res) == IF res # <<>> THEN Append(ok, res) ELSE ok

\* the receive given up after a while: the oldest channel is evicted with
\* or without its result
ProcessReposRecvTimeout ==
  /\ pc = "processRepos_recv"
  /\ \/ \E g \in Senders(chanPool[1]) :
          /\ units' = Delivered(units, g)
          /\ recvd' = Received(recvd, chanPool[1], g, units[g].val)
          /\ allOkRepos' = Collect(allOkRepos, units[g].val)
     \/ UNCHANGED <<units, recvd, allOkRepos>>
  /\ chanPool' = Tail(chanPool)
  /\ pc' = AfterItem(repoIdx)
  /\ UNCHANGED <<fatal, ctx, getReposVars, fs, thrN, checked, prTodo, org, owd,
                 repoIdx, drainIdx, commitsVars, out>>

\* the receive taken from whichever channel of the window has a sender
\* ready, as a select over the window would
ProcessReposRecvAny ==
  /\ pc = "processRepos_recv"
  /\ \E i \in DOMAIN chanPool :
       \E g \in Senders(chanPool[i]) :
          /\ units' = Delivered(units, g)
          /\ recvd' = Received(recvd, chanPool[i], g, units[g].val)
          /\ chanPool' = SubSeq(chanPool, 1, i - 1) \o
                           SubSeq(chanPool, i + 1, Len(chanPool))
          /\ allOkRepos' = Collect(allOkRepos, units[g].val)
  /\ pc' = AfterItem(repoIdx)
  /\ UNCHANGED <<fatal, ctx, getReposVars, fs, thrN, checked, prTodo, org, owd,
                 repoIdx, drainIdx, commitsVars, out>>

\* lines 204-210: receive from the oldest channel of the window, evict it
ProcessReposRecv ==
  /\ pc = "processRepos_recv"
  /\ LET ch == chanPool[1]
     IN \E g \in Senders(ch) :
          /\ units' = Delivered(units, g)
          /\ recvd' = Received(recvd, ch, g, units[g].val)
          /\ chanPool' = Tail(chanPool)
          /\ allOkRepos' = Collect(allOkRepos, units[g].val)
  /\ pc' = AfterItem(repoIdx)
  /\ UNCHANGED <<fatal, ctx, getReposVars, fs, thrN, checked, prTodo, org, owd,
                 repoIdx, drainIdx, commitsVars, out>>

\* lines 213-218: one iteration of the final range over chanPool
ProcessReposDrain ==
  /\ pc = "processRepos_drain"
  /\ ~DrainDone(drainIdx, chanPool)
  /\ LET ch == chanPool[drainIdx]
     IN \E g \in Senders(ch) :
          /\ units' = Delivered(units, g)
          /\ recvd' = Received(recvd, ch, g, units[g].val)
          /\ allOkRepos' = Collect(allOkRepos, units[g].val)
  /\ drainIdx' = drainIdx + 1
  /\ UNCHANGED <<pc, fatal, ctx, getReposVars, fs, thrN, chanPool, checked,
                 prTodo, org, owd, repoIdx, commitsVars, out>>

RECURSIVE Flatten(_)
Flatten(ss) == IF ss = <<>> THEN <<>> ELSE Head(ss) \o Flatten(Tail(ss))

\* lines 228-232: the Ruby-like array of the repos
AllOkReposStr(ok) ==
  <<"[\n">> \o Flatten([i \in DOMAIN ok |-> <<"  '">> \o ok[i] \o <<"',\n">>])
            \o <<"]">>

\* lines 235-247: the shell command over the sorted orgs
FinalCmd(orgs) ==
  <<"./all_repos_log.sh ">> \o
  Flatten([i \in DOMAIN orgs |-> ReposDir \o orgs[i] \o <<"/* ">>])

\* line 253
Summary(ok, n) == <<"Sucesfully processed ", Len(ok), "/", n, " repos\n">>

\* lines 250-251: what goes to stdout when ctx.ExternalInfo is set
ExternalDump(ok, orgs) ==
  << <<"AllRepos:\n">> \o AllOkReposStr(ok) \o <<"\n">>,
     <<"Final command:\n">> \o FinalCmd(orgs) \o <<"\n">> >>

\* the summary written inside the if, with the dump
ReportDumpOnly(o, ext, ok, orgs, n) ==
  IF ext
  THEN [stdout |-> o.stdout \o ExternalDump(ok, SortStrings(orgs)),
        log    |-> Append(o.log, Summary(ok, n))]
  ELSE o

\* the orgs written in the order the range over the map gave them
ReportOrgsUnsorted(o, ext, ok, orgs, n) ==
  IF ext
  THEN [stdout |-> o.stdout \o ExternalDump(ok, orgs),
        log    |-> Append(o.log, Summary(ok, n))]
  ELSE [o EXCEPT !.log = Append(@, Summary(ok, n))]

\* lines 223-253: what the process has written after the report: the dump
\* only when ctx.ExternalInfo (ext) is set, the summary always
Report(o, ext, ok, orgs, n) ==
  IF ext
  THEN [stdout |-> o.stdout \o ExternalDump(ok, SortStrings(orgs)),
        log    |-> Append(o.log, Summary(ok, n))]
  ELSE [o EXCEPT !.log = Append(@, Summary(ok, n))]

\* lines 223-253: sort.Strings(allOkRepos) in place when ctx.ExternalInfo is
\* set, the optional dump on stdout, the summary in the log
ProcessReposReport ==
  /\ pc = "processRepos_drain"
  /\ DrainDone(drainIdx, chanPool)
  /\ \E orgs \in Perms(DOMAIN allRepos) :
       LET ok == IF ctx.ExternalInfo THEN SortStrings(allOkRepos) ELSE allOkRepos
       IN /\ allOkRepos' = ok
          /\ out' = Report(out, ctx.ExternalInfo, ok, orgs, checked)
  /\ pc' = "processRepos_ret"
  /\ UNCHANGED <<fatal, ctx, getReposVars, fs, poolVars, checked, prTodo, org,
                 owd, repoIdx, units, recvd, commitsVars>>

\* lines 254 and 349-352: processRepos returns; its parameters, locals and
\* channels and the goroutines that have ended are gone
ProcessReposReturn ==
  /\ pc = "processRepos_ret"
  /\ pc' = MainCommits(ctx)
  /\ allRepos' = EmptyMap
  /\ thrN' = 0
  /\ chanPool' = <<>>
  /\ drainIdx' = 0
  /\ allOkRepos' = <<>>
  /\ checked' = 0
  /\ org' = <<>>
  /\ owd' = <<>>
  /\ repoIdx' = 0
  /\ units' = [g \in {k \in DOMAIN units : units[k].pc # "done"} |-> units[g]]
  /\ recvd' = [c \in {units[k].ch : k \in {h \in DOMAIN units :
                                              units[h].pc # "done"}} |->
                 recvd[c]]
  /\ UNCHANGED <<fatal, ctx, projects, dbs, grTodo, cons, rowsOf, fs, prTodo,
                 commitsVars, out>>

----------------------------------------------------------------------------
(* processCommitsDB: one goroutine per dispatched shard *)

\* the goroutines blocked in the deferred send on channel c
DBSenders(c) == {g \in DOMAIN dbUnits : dbUnits[g].pc = "send" /\ dbUnits[g].ch = c}

\* a failed query handled as processRepo handles a failed command: the
\* goroutine reports and the batch goes on
ProcessCommitsDBQueryIsolated(g) ==
  /\ pc # "aborted"
  /\ dbUnits[g].pc = "start"
  /\ \E err \in {"nil", "query"} :
       /\ dbUnits' = IF err # "nil"
                     THEN [dbUnits EXCEPT ![g].pc = "send", ![g].con = "closed",
                                          ![g].err = err]
                     ELSE [dbUnits EXCEPT ![g].pc = "scan", ![g].con = "open",
                                          ![g].rows = "open", ![g].err = err]
       /\ UNCHANGED <<pc, fatal, ctx, getReposVars, fs, poolVars, reposVars,
                      pcTodo, out>>

\* lines 269-277: lib.PgConnDB, defer con.Close(), con.Query(query),
\* FatalOnError, defer rows.Close()
ProcessCommitsDBQuery(g) ==
  /\ pc # "aborted"
  /\ dbUnits[g].pc = "start"
  /\ \E err \in {"nil", "connect", "query"} :
       IF FatalOnError(err)
       THEN /\ Die("processCommitsDB", err,
                   [unit |-> [dbUnits[g] EXCEPT
                                !.err = err,
                                !.con = IF err = "connect" THEN "none" ELSE "open"],
                    recvd |-> recvd[dbUnits[g].ch]])
            /\ UNCHANGED fs
       ELSE /\ dbUnits' = [dbUnits EXCEPT ![g].pc = "scan", ![g].con = "open",
                                          ![g].rows = "open", ![g].err = err]
            /\ UNCHANGED <<pc, fatal, ctx, getReposVars, fs, poolVars,
                           reposVars, pcTodo, out>>

\* lines 265, 272, 276: the calls processCommitsDB defers, in the order it
\* registers them
Deferred == <<"ch <- true", "con.Close", "rows.Close">>

\* deferred calls run in the order they were registered
RanBeforeFifo(d, call) ==
  {d[i] : i \in {j \in DOMAIN d : \E k \in DOMAIN d : d[k] = call /\ j < k}}

\* the deferred calls that have run when the deferred call starts: at a
\* return the calls run last registered first
RanBefore(d, call) ==
  {d[i] : i \in {j \in DOMAIN d : \E k \in DOMAIN d : d[k] = call /\ j > k}}

\* what a handle opened by this goroutine is when its send starts
AtSend(close) ==
  IF close \in RanBefore(Deferred, "ch <- true") THEN "closed" ELSE "open"

\* lines 283-305 and 265-267: read the rows, FatalOnError on rows.Scan and
\* rows.Err, list the commits, return: the deferred calls run in reverse
\* order (rows.Close, con.Close) and the goroutine blocks in ch <- true
ProcessCommitsDBScan(g) ==
  /\ pc # "aborted"
  /\ dbUnits[g].pc = "scan"
  /\ \E err \in {"nil", "scan", "rows"} :
       IF FatalOnError(err)
       THEN /\ Die("processCommitsDB", err, [unit |-> [dbUnits[g] EXCEPT !.err = err],
                 recvd |-> recvd[dbUnits[g].ch]])
            /\ UNCHANGED fs
       ELSE /\ dbUnits' = [dbUnits EXCEPT ![g].pc = "send",
                                          ![g].rows = AtSend("rows.Close"),
                                          ![g].con = AtSend("con.Close"),
                                          ![g].err = err]
            /\ UNCHANGED <<pc, fatal, ctx, getReposVars, fs, poolVars,
                           reposVars, pcTodo, out>>

----------------------------------------------------------------------------
(* processCommits *)

\* where the loop of lines 326-335 goes on
AfterDB(todo) == IF todo # {} THEN "processCommits_dbs" ELSE "processCommits_drain"

\* lines 311-325: read the SQL file, set up the pool
ProcessCommitsInit ==
  /\ pc = "processCommits"
  /\ \E err \in {"nil", "read list_unprocessed_commits.sql"} :
       IF FatalOnError(err)
       THEN /\ Die("processCommits", err, <<>>)
            /\ UNCHANGED fs
       ELSE /\ thrN' = GetThreadsNum(ctx)
            /\ pcTodo' = dbs
            /\ drainIdx' = 1
            /\ pc' = AfterDB(dbs)
            /\ UNCHANGED <<fatal, ctx, getReposVars, fs, chanPool, reposVars,
                           dbUnits, out>>

\* lines 326-330: next shard of the range over dbs, start its goroutine
ProcessCommitsDispatch(db) ==
  /\ pc = "processCommits_dbs"
  /\ db \in pcTodo
  /\ pcTodo' = pcTodo \ {db}
  /\ LET ch == NewChan
         g  == Cardinality(DOMAIN dbUnits) + 1
     IN /\ chanPool' = Append(chanPool, ch)
        /\ recvd' = [c \in DOMAIN recvd \cup {ch} |->
                       IF c = ch THEN <<>> ELSE recvd[c]]
        /\ dbUnits' = [k \in DOMAIN dbUnits \cup {g} |->
                         IF k = g
                         THEN [ch |-> ch, db |-> db, pc |-> "start",
                               con |-> "none", rows |-> "none", err |-> "nil"]
                         ELSE dbUnits[k]]
        /\ pc' = IF WindowFull(Append(chanPool, ch), thrN)
                 THEN "processCommits_recv"
                 ELSE AfterDB(pcTodo \ {db})
  /\ UNCHANGED <<fatal, ctx, getReposVars, fs, thrN, drainIdx, allOkRepos,
                 checked, prTodo, org, owd, repoIdx, units, out>>

\* lines 331-333: receive from the oldest channel of the window, evict it
ProcessCommitsRecv ==
  /\ pc = "processCommits_recv"
  /\ LET ch == chanPool[1]
     IN \E g \in DBSenders(ch) :
          /\ dbUnits' = [dbUnits EXCEPT ![g].pc = "done"]
          /\ recvd' = Received(recvd, ch, g, TRUE)
          /\ chanPool' = Tail(chanPool)
  /\ pc' = AfterDB(pcTodo)
  /\ UNCHANGED <<fatal, ctx, getReposVars, fs, thrN, drainIdx, allOkRepos,
                 checked, prTodo, org, owd, repoIdx, units, pcTodo, out>>

\* lines 336-338: one iteration of the final range over chanPool
ProcessCommitsDrain ==
  /\ pc = "processCommits_drain"
  /\ ~DrainDone(drainIdx, chanPool)
  /\ LET ch == chanPool[drainIdx]
     IN \E g \in DBSenders(ch) :
          /\ dbUnits' = [dbUnits EXCEPT ![g].pc = "done"]
          /\ recvd' = Received(recvd, ch, g, TRUE)
  /\ drainIdx' = drainIdx + 1
  /\ UNCHANGED <<pc, fatal, ctx, getReposVars, fs, thrN, chanPool, allOkRepos,
                 checked, prTodo, org, owd, repoIdx, units, pcTodo, out>>

\* line 339 and 352: processCommits returns
ProcessCommitsReturn ==
  /\ pc = "processCommits_drain"
  /\ DrainDone(drainIdx, chanPool)
  /\ pc' = "main_end"
  /\ UNCHANGED <<fatal, ctx, getReposVars, fs, poolVars, reposVars,
                 commitsVars, out>>

\* lines 353-355: the closing log line, main returns; the process ends, and
\* with it every goroutine and channel it still had
MainEnd ==
  /\ pc = "main_end"
  /\ pc' = "done"
  /\ out' = [out EXCEPT !.log = Append(@, <<"All repos processed in: ">>)]
  /\ thrN' = 0
  /\ chanPool' = <<>>
  /\ drainIdx' = 0
  /\ dbs' = {}
  /\ units' = EmptyMap
  /\ dbUnits' = EmptyMap
  /\ recvd' = EmptyMap
  /\ UNCHANGED <<fatal, ctx, projects, grTodo, cons, rowsOf, allRepos, fs,
                 allOkRepos, checked, prTodo, org, owd, repoIdx, pcTodo>>

----------------------------------------------------------------------------
(* The program *)

Next ==
  \/ GetReposReadProjects
  \/ \E db \in Shards : GetReposDB(db)
  \/ GetReposReturn
  \/ ProcessReposInit
  \/ \E o \in DOMAIN allRepos : ProcessReposOrg(o)
  \/ ProcessReposDispatch
  \/ ProcessReposRecv
  \/ ProcessReposDrain
  \/ ProcessReposReport
  \/ ProcessReposReturn
  \/ \E g \in DOMAIN units : ProcessRepoStat(g)
  \/ \E g \in DOMAIN units : ProcessRepoExec(g)
  \/ ProcessCommitsInit
  \/ \E db \in Shards : ProcessCommitsDispatch(db)
  \/ ProcessCommitsRecv
  \/ ProcessCommitsDrain
  \/ ProcessCommitsReturn
  \/ \E g \in DOMAIN dbUnits : ProcessCommitsDBQuery(g)
  \/ \E g \in DOMAIN dbUnits : ProcessCommitsDBScan(g)
  \/ MainEnd

Spec == Init /\ [][Next]_vars

\* the steps of the main goroutine
MainStep ==
  \/ GetReposReadProjects
  \/ \E db \in Shards : GetReposDB(db)
  \/ GetReposReturn
  \/ ProcessReposInit
  \/ \E o \in DOMAIN allRepos : ProcessReposOrg(o)
  \/ ProcessReposDispatch
  \/ ProcessReposRecv
  \/ ProcessReposDrain
  \/ ProcessReposReport
  \/ ProcessReposReturn
  \/ ProcessCommitsInit
  \/ \E db \in Shards : ProcessCommitsDispatch(db)
  \/ ProcessCommitsRecv
  \/ ProcessCommitsDrain
  \/ ProcessCommitsReturn
  \/ MainEnd

\* the steps of the g-th processRepo goroutine
UnitStep(g) == g \in DOMAIN units /\ (ProcessRepoStat(g) \/ ProcessRepoExec(g))

\* the steps of the g-th processCommitsDB goroutine
DBStep(g) ==
  g \in DOMAIN dbUnits /\ (ProcessCommitsDBQuery(g) \/ ProcessCommitsDBScan(g))

\* the Go scheduler runs every goroutine that can run, and every command and
\* query a goroutine has started ends
Fairness ==
  /\ WF_vars(MainStep)
  /\ \A g \in 1..MaxRepos : WF_vars(UnitStep(g))
  /\ \A g \in 1..Cardinality(Shards) : WF_vars(DBStep(g))

\* main after ctx.Init() with GHA2DB_PROCESS_REPOS and GHA2DB_PROCESS_COMMITS
\* set and GHA2DB_EXTERNAL_INFO unset: both pools run, one after the other
FairInit == Init /\ ctx.ProcessRepos /\ ctx.ProcessCommits /\ ~ctx.ExternalInfo

FairSpec == FairInit /\ [][Next]_vars /\ Fairness

----------------------------------------------------------------------------
(* Properties *)

Range(s) == {s[i] : i \in DOMAIN s}

SeqToBag(s) == [x \in Range(s) |-> Cardinality({i \in DOMAIN s : s[i] = x})]

\* the bag of the repo names the goroutines of S were started for
UnitsBag(S) ==
  [x \in {units[g].orgRepo : g \in S} |->
     Cardinality({g \in S : units[g].orgRepo = x})]

\* how often name id occurs in the lists of map f
CountIn(f, id) ==
  Cardinality({p \in (DOMAIN f) \X (1..MaxRepos) :
                 p[2] \in DOMAIN f[p[1]] /\ f[p[1]][p[2]] = id})

\* goroutines started whose result the dispatcher has not received
InFlightRepos == {g \in DOMAIN units : units[g].pc # "done"}

InFlightDBs == {g \in DOMAIN dbUnits : dbUnits[g].pc # "done"}

\* the work items of processRepos
TotalRepos == SumLen(allRepos, DOMAIN allRepos)

\* goroutines whose git command failed
FailedRepos == {g \in DOMAIN units : units[g].res = "exit status"}

\* C1: in both pools the number of units started whose result the dispatcher
\* has not yet received never exceeds the concurrency limit N
C1_AtMostNInFlight ==
  /\ Cardinality(InFlightRepos) <= ctx.NCPUs
  /\ Cardinality(InFlightDBs) <= ctx.NCPUs

\* a full window of N = 2 units after more than N dispatches
C1_Witness ==
  /\ thrN = 2
  /\ checked > thrN
  /\ Cardinality(InFlightRepos) = thrN

\* C2: no channel is ever received from twice, and when a pool has finished
\* its loop and its final drain every work item was dispatched, no unit is
\* in flight or blocked in its send, and every channel was received from once
C2_ReturnsAfterAllResults ==
  /\ \A c \in DOMAIN recvd : Len(recvd[c]) <= 1
  /\ (pc = "processRepos_ret") =>
       /\ Cardinality(DOMAIN units) = TotalRepos
       /\ InFlightRepos = {}
       /\ DOMAIN recvd = {units[g].ch : g \in DOMAIN units}
       /\ \A c \in DOMAIN recvd : Len(recvd[c]) = 1
  /\ (pc = "main_end" /\ ctx.ProcessCommits) =>
       /\ {dbUnits[g].db : g \in DOMAIN dbUnits} = dbs
       /\ Cardinality(DOMAIN dbUnits) = Cardinality(dbs)
       /\ InFlightDBs = {}
       /\ DOMAIN recvd = {dbUnits[g].ch : g \in DOMAIN dbUnits}
       /\ \A c \in DOMAIN recvd : Len(recvd[c]) = 1

\* processRepos at its return after three items with N = 2: two results
\* were received in the loop, one in the final drain
C2_Witness ==
  /\ pc = "processRepos_ret"
  /\ thrN = 2
  /\ checked = 3
  /\ chanPool = <<3>>
  /\ drainIdx = 2
  /\ \A c \in 1..3 : Len(recvd[c]) = 1

\* C3: when processRepos returns, every item of the index was dispatched and
\* collected, the success collection holds exactly the names of the items
\* whose command did not fail (one entry per dispatched occurrence), and the
\* summary is (K - |F|)/K
C3_FailuresIsolated ==
  (pc = "processRepos_ret") =>
    LET K == TotalRepos
        F == FailedRepos
    IN /\ Cardinality(DOMAIN units) = K
       /\ \A id \in TableNames : CountIn(allRepos, id) =
                                   Cardinality({g \in DOMAIN units : units[g].orgRepo = id})
       /\ \A g \in DOMAIN units : units[g].pc = "done"
       /\ SeqToBag(allOkRepos) = UnitsBag(DOMAIN units \ F)
       /\ Len(allOkRepos) = K - Cardinality(F)
       /\ out.log[Len(out.log)] =
            <<"Sucesfully processed ", K - Cardinality(F), "/", K, " repos\n">>

\* three items, one failed: 2/3
C3_Witness ==
  /\ pc = "processRepos_ret"
  /\ TotalRepos = 3
  /\ Cardinality(FailedRepos) = 1
  /\ out.log[Len(out.log)] = <<"Sucesfully processed ", 2, "/", 3, " repos\n">>

\* C4: a processRepo goroutine that has ended has delivered exactly one value,
\* on the channel made for it and for no other goroutine: its org/repo name
\* when its command succeeded, the empty string when it failed; before that
\* it has delivered nothing
C4_OneValueOnOwnChannel ==
  \A g \in DOMAIN units :
    LET u    == units[g]
        want == IF u.res = "nil" THEN u.orgRepo ELSE <<>>
    IN /\ \A h \in DOMAIN units : (h # g) => (units[h].ch # u.ch)
       /\ (u.pc = "done") => (recvd[u.ch] = << [from |-> g, val |-> want] >>)
       /\ (u.pc = "send") => (u.res \in {"nil", "exit status"} /\ u.val = want)
       /\ \A c \in DOMAIN recvd : \A i \in DOMAIN recvd[c] :
            (recvd[c][i].from = g) => (c = u.ch /\ u.pc = "done")

\* one goroutine has delivered its name, another the empty string
C4_Witness ==
  \E g, h \in DOMAIN units :
    /\ units[g].pc = "done" /\ units[g].res = "nil"
    /\ recvd[units[g].ch] = << [from |-> g, val |-> units[g].orgRepo] >>
    /\ units[h].pc = "done" /\ units[h].res = "exit status"
    /\ recvd[units[h].ch] = << [from |-> h, val |-> <<>>] >>

\* C5: a goroutine that found its path absent runs clone and never pull, one
\* that found a directory runs pull and never clone, and one that found a
\* file never goes on: the process dies with no command run and nothing sent
C5_TransitionByPathState ==
  /\ \A g \in DOMAIN units :
       LET u == units[g]
       IN /\ (u.pre = "absent") =>
               (u.pc = "clone" \/ (u.pc \in {"send", "done"} /\ u.cmd = "clone"))
          /\ IsDir(u.pre) =>
               (u.pc = "pull" \/ (u.pc \in {"send", "done"} /\ u.cmd = "pull"))
          /\ u.pre # "file"
  /\ (fatal.at = "processRepo" /\ fatal.by.unit.pre = "file") =>
       /\ pc = "aborted"
       /\ fatal.why = "exists, but is not a directory"
       /\ fatal.by.unit.cmd = "none"
       /\ fatal.by.unit.res = "none"
       /\ fatal.by.recvd = <<>>

\* the process died in a goroutine whose path is a file
C5_Witness ==
  /\ pc = "aborted"
  /\ fatal.at = "processRepo"
  /\ fatal.by.unit.pre = "file"

\* C6: two runs of processRepo for the same repository, the second started
\* after the first was collected (their dispatch numbers differ by at least
\* N): a successful run leaves a directory and delivers the name; after a
\* successful first run the second finds a directory and runs pull, and a
\* first run that found the path absent ran clone
C6_SyncTwice ==
  \A i, j \in DOMAIN units :
    (i < j /\ units[i].orgRepo = units[j].orgRepo /\ j - i >= thrN) =>
      LET a    == units[i]
          b    == units[j]
          path == Clean(a.rwd)
      IN /\ a.pc = "done"
         /\ b.rwd = a.rwd
         /\ (a.res = "nil") =>
              /\ IsDir(fs[path])
              /\ a.val = a.orgRepo
              /\ (a.pre = "absent") => (a.cmd = "clone")
         /\ (a.res = "nil" /\ b.pre # "none") =>
              (IsDir(b.pre) /\ b.pc # "clone" /\ b.cmd # "clone")
         /\ (a.res = "nil" /\ b.res = "nil") =>
              (b.cmd = "pull" /\ b.val = b.orgRepo /\ IsDir(fs[path]))

\* a clone from absent, then a pull, both successful, with N = 2
C6_Witness ==
  \E i, j \in DOMAIN units :
    /\ i < j /\ units[i].orgRepo = units[j].orgRepo /\ j - i >= thrN
    /\ thrN = 2
    /\ units[i].pre = "absent" /\ units[i].cmd = "clone" /\ units[i].res = "nil"
    /\ units[j].pre = "dir" /\ units[j].cmd = "pull" /\ units[j].res = "nil"
    /\ units[j].pc = "done"

\* a repo name of exactly two non-empty parts
WellFormed(id) ==
  LET ary == Split(id) IN Len(ary) = 2 /\ ary[1] # <<>> /\ ary[2] # <<>>

\* C7: getRepos does not go on with a name that does not split into exactly
\* two non-empty parts: no shard visited by a living process returned one,
\* and none is in the organization mapping
C7_MalformedNameAborts ==
  /\ \A db \in DOMAIN rowsOf : \A i \in DOMAIN rowsOf[db] :
       WellFormed(rowsOf[db][i])
  /\ \A o \in DOMAIN allRepos : \A i \in DOMAIN allRepos[o] :
       WellFormed(allRepos[o][i])

\* C8: the shard set of getRepos is the set of the PDBs of the projects that
\* are not disabled, and the shards visited and those still to visit make up
\* that set; when every shard was visited, every shard of the set was
\* queried, every name is in the list of its organization, and every name is
\* in the mapping as often as the shards returned it
C8_IndexIsMultisetUnion ==
  /\ (pc = "getRepos_dbs" /\ cons = {}) =>
       (dbs = {s \in Shards : \E i \in DOMAIN projects :
                 projects[i].PDB = s /\ ~projects[i].Disabled})
  /\ (pc = "getRepos_dbs") =>
       (DOMAIN rowsOf \cup grTodo = dbs /\ DOMAIN rowsOf \cap grTodo = {})
  /\ (pc = "getRepos_dbs" /\ grTodo = {}) =>
       /\ DOMAIN rowsOf = dbs
       /\ \A o \in DOMAIN allRepos : \A i \in DOMAIN allRepos[o] :
            SubSeq(allRepos[o][i], 1, Len(o) + 1) = o \o <<"/">>
       /\ SumLen(allRepos, DOMAIN allRepos) = SumLen(rowsOf, DOMAIN rowsOf)
       /\ \A id \in TableNames : CountIn(allRepos, id) = CountIn(rowsOf, id)

\* two shards have returned the same name, which is in the mapping twice
C8_Witness ==
  /\ pc = "getRepos_dbs"
  /\ grTodo = {}
  /\ dbs = Shards
  /\ \E id \in TableNames : CountIn(rowsOf, id) = 2 /\ CountIn(allRepos, id) = 2

\* C9: no living process has a processCommitsDB goroutine whose query or row
\* scan failed: the process died in that goroutine, which sent nothing, so
\* processCommits did not return
C9_ScanFailureIsFatal ==
  /\ \A g \in DOMAIN dbUnits : dbUnits[g].err = "nil"
  /\ (fatal.at = "processCommitsDB") =>
       /\ pc = "aborted"
       /\ fatal.by.unit.err \in {"connect", "query", "scan", "rows"}
       /\ fatal.why = fatal.by.unit.err
       /\ fatal.by.recvd = <<>>

\* the process died in a goroutine whose query failed
C9_Witness ==
  /\ pc = "aborted"
  /\ fatal.at = "processCommitsDB"
  /\ fatal.why = "query"
  /\ fatal.by.unit.con = "open"

\* the summary lines in the log
SummaryLines == {i \in DOMAIN out.log : out.log[i][1] = "Sucesfully processed "}

\* C10: before the report of processRepos nothing was written; from the
\* report on the log holds the summary once, written when every result was
\* collected, and stdout holds the repo listing and the command line exactly
\* when ctx.ExternalInfo is set
C10_SummaryOnceDumpIffFlag ==
  /\ (pc \in {"getRepos", "getRepos_dbs", "processRepos", "processRepos_orgs",
              "processRepos_repos", "processRepos_recv", "processRepos_drain"}) =>
       (out = [stdout |-> <<>>, log |-> <<>>])
  /\ (ctx.ProcessRepos /\
      pc \in {"processRepos_ret", "processCommits",
              "processCommits_dbs", "processCommits_recv",
              "processCommits_drain", "main_end", "done"}) =>
       /\ Cardinality(SummaryLines) = 1
       /\ ctx.ExternalInfo =>
            /\ Len(out.stdout) = 2
            /\ out.stdout[1][1] = "AllRepos:\n"
            /\ out.stdout[2][1] = "Final command:\n"
       /\ (~ctx.ExternalInfo) => (out.stdout = <<>>)
  /\ (pc = "processRepos_ret") =>
       /\ InFlightRepos = {}
       /\ Cardinality(DOMAIN units) = TotalRepos
       /\ out.log = << Summary(allOkRepos, TotalRepos) >>
  /\ Cardinality(SummaryLines) <= 1
  /\ (~ctx.ProcessRepos) => (SummaryLines = {} /\ out.stdout = <<>>)

\* the summary was logged with the flag unset and nothing on stdout
C10_Witness ==
  /\ pc = "processRepos_ret"
  /\ ~ctx.ExternalInfo
  /\ checked = 3
  /\ out.stdout = <<>>
  /\ Cardinality(SummaryLines) = 1

\* no element of s is smaller than an element before it
IsSorted(s) == \A i, j \in DOMAIN s : (i < j) => ~StrLess(s[j], s[i])

\* C11: what processRepos emits is a function of the organization index and
\* of the set of failed items alone: the listing is the one sorted sequence
\* of the names of the items that did not fail, the command line names the
\* organizations in their one sorted order, and the summary counts are the
\* number of items that did not fail and the number of items; nothing of it
\* depends on the order of dispatch or of completion
C11_ReportDeterministic ==
  (pc = "processRepos_ret") =>
    LET good == DOMAIN units \ FailedRepos
    IN /\ out.log = << <<"Sucesfully processed ", Cardinality(good), "/",
                         TotalRepos, " repos\n">> >>
       /\ ctx.ExternalInfo =>
            \E oks \in Perms(good) : \E orgs \in Perms(DOMAIN allRepos) :
              LET names == [i \in DOMAIN oks |-> units[oks[i]].orgRepo]
              IN /\ IsSorted(names)
                 /\ IsSorted(orgs)
                 /\ out.stdout =
                      << <<"AllRepos:\n">> \o AllOkReposStr(names) \o <<"\n">>,
                         <<"Final command:\n">> \o FinalCmd(orgs) \o <<"\n">> >>

\* the items were dispatched and collected in the order b/y, a/x and the
\* listing has a/x first
C11_Witness ==
  /\ pc = "processRepos_ret"
  /\ ctx.ExternalInfo
  /\ DOMAIN units = {1, 2}
  /\ units[1].orgRepo = <<"b", "/", "y">> /\ units[1].res = "nil"
  /\ units[2].orgRepo = <<"a", "/", "x">> /\ units[2].res = "nil"
  /\ allOkRepos = << <<"a", "/", "x">>, <<"b", "/", "y">> >>
  /\ out.stdout[2] = <<"Final command:\n">> \o
                       FinalCmd(<< <<"a">>, <<"b">> >>) \o <<"\n">>

\* the channels of the goroutines of us whose result was not received yet,
\* in the order they were made
RECURSIVE PendingChans(_, _)
PendingChans(us, g) ==
  IF g \notin DOMAIN us THEN <<>>
  ELSE IF us[g].pc = "done" THEN PendingChans(us, g + 1)
  ELSE <<us[g].ch>> \o PendingChans(us, g + 1)

\* the part of chanPool the pool has still to receive from
Window ==
  IF pc \in {"processRepos_drain", "processCommits_drain"}
  THEN SubSeq(chanPool, drainIdx, Len(chanPool))
  ELSE chanPool

\* C12: in both pools the results received are at every moment those of the
\* units dispatched first, so they are received in dispatch order, and the
\* window lists the units not yet collected, oldest first; the dispatcher
\* stands in the receive from the oldest of them exactly when the window
\* holds N units, and stands before a dispatch only with fewer than N
C12_FifoHeadOfLine ==
  /\ \A g, h \in DOMAIN units :
       (g < h /\ units[h].pc = "done") => (units[g].pc = "done")
  /\ \A g, h \in DOMAIN dbUnits :
       (g < h /\ dbUnits[h].pc = "done") => (dbUnits[g].pc = "done")
  /\ (pc \in {"processRepos_orgs", "processRepos_repos", "processRepos_recv",
               "processRepos_drain"}) =>
       (Window = PendingChans(units, 1))
  /\ (pc \in {"processCommits_dbs", "processCommits_recv",
               "processCommits_drain"}) =>
       (Window = PendingChans(dbUnits, 1))
  /\ (pc \in {"processRepos_recv", "processCommits_recv"}) =>
       (Len(chanPool) = thrN)
  /\ (pc \in {"processRepos_orgs", "processRepos_repos",
               "processCommits_dbs"}) =>
       (Len(chanPool) < thrN)

\* the window is full, its newer unit stands in its send, its oldest has not
\* even started its command, and items remain to dispatch
C12_Witness ==
  /\ pc = "processRepos_recv"
  /\ thrN = 2
  /\ checked < TotalRepos
  /\ \E g, h \in DOMAIN units :
       /\ chanPool = <<units[g].ch, units[h].ch>>
       /\ units[g].pc = "start"
       /\ units[h].pc = "send"

\* processRepos is between two steps of its loops, has dispatched an item
\* and has items left to dispatch
WorkRemains ==
  /\ pc \in {"processRepos_orgs", "processRepos_repos", "processRepos_recv"}
  /\ checked >= 1
  /\ checked < TotalRepos

\* C13 as claimed: once the first item is dispatched and while undispatched
\* items remain, the window holds between 1 and N units
C13_WindowNeverEmpty ==
  WorkRemains => (1 <= Len(chanPool) /\ Len(chanPool) <= thrN)

\* C13 amended: while undispatched items remain the window holds the units
\* in flight and never more than N of them; it holds at least one of them
\* when N >= 2, and with N = 1 it is empty between each receive and the next
\* dispatch
C13_WindowBounds ==
  WorkRemains =>
    /\ Len(chanPool) = Cardinality(InFlightRepos)
    /\ Len(chanPool) <= thrN
    /\ (thrN >= 2) => (1 <= Len(chanPool))
    /\ (thrN = 1) =>
         (Len(chanPool) = IF pc = "processRepos_recv" THEN 1 ELSE 0)

\* N = 2: after the first receive one unit is left in the window and an
\* item is left to dispatch
C13_Witness ==
  /\ WorkRemains
  /\ thrN = 2
  /\ pc = "processRepos_repos"
  /\ checked = 2
  /\ Len(chanPool) = 1
  /\ units[1].pc = "done"

\* C14: as long as a dispatched unit has not reported (a unit may stay in its
\* command for ever), its pool has not returned, the summary is not logged
\* and at most N - 1 units were dispatched after it; when it is the oldest
\* of a full window the dispatcher stands in the receive from its channel
C14_HungUnitBlocksPool ==
  /\ \A g \in InFlightRepos :
       /\ pc \in {"processRepos_orgs", "processRepos_repos",
                   "processRepos_recv", "processRepos_drain"}
       /\ out.log = <<>>
       /\ Cardinality(DOMAIN units) - g <= thrN - 1
       /\ (Len(chanPool) = thrN /\ chanPool[1] = units[g].ch) =>
            (pc = "processRepos_recv")
  /\ \A g \in InFlightDBs :
       /\ pc \in {"processCommits_dbs", "processCommits_recv",
                   "processCommits_drain"}
       /\ Cardinality(DOMAIN dbUnits) - g <= thrN - 1
       /\ (Len(chanPool) = thrN /\ chanPool[1] = dbUnits[g].ch) =>
            (pc = "processCommits_recv")

\* N = 2: the second unit is still in its command, the first was collected,
\* the third stands in its send, and the dispatcher waits for the second
C14_Witness ==
  /\ pc = "processRepos_recv"
  /\ thrN = 2
  /\ DOMAIN units = {1, 2, 3}
  /\ units[1].pc = "done"
  /\ units[2].pc \in {"clone", "pull"}
  /\ units[3].pc = "send"
  /\ chanPool = <<units[2].ch, units[3].ch>>
  /\ out.log = <<>>

\* the dispatcher stands in a receive no goroutine is sending to
DispatcherBlocked ==
  \/ pc = "processRepos_recv" /\ Senders(chanPool[1]) = {}
  \/ pc = "processRepos_drain" /\ ~DrainDone(drainIdx, chanPool)
                                /\ Senders(chanPool[drainIdx]) = {}
  \/ pc = "processCommits_recv" /\ DBSenders(chanPool[1]) = {}
  \/ pc = "processCommits_drain" /\ ~DrainDone(drainIdx, chanPool)
                                  /\ DBSenders(chanPool[drainIdx]) = {}

\* no goroutine of a pool can take a step of its own
UnitsBlocked ==
  /\ \A g \in DOMAIN units : units[g].pc \notin {"start", "clone", "pull"}
  /\ \A g \in DOMAIN dbUnits : dbUnits[g].pc \notin {"start", "scan"}

\* C15: the dispatcher and the units are never all blocked; a pool that has
\* returned has left no unit standing in its send or short of it; and when
\* every goroutine that can run does run and every command and query ends,
\* a pool that was entered returns, unless the process dies of a fatal error
C15_PoolTerminates ==
  /\ [](~(DispatcherBlocked /\ UnitsBlocked))
  /\ []((pc = "processRepos_ret") => (InFlightRepos = {}))
  /\ []((pc = "main_end") => (InFlightRepos = {} /\ InFlightDBs = {}))
  /\ (pc \in {"processRepos", "processCommits"})
       ~> (pc \in {"processRepos_ret", "main_end", "aborted"})

\* N = 1 and three items: processRepos has returned with every send received
C15_Witness ==
  /\ pc = "processRepos_ret"
  /\ thrN = 1
  /\ DOMAIN units = {1, 2, 3}
  /\ \A g \in DOMAIN units : units[g].pc = "done" /\ Len(recvd[units[g].ch]) = 1

\* C16: a processCommitsDB goroutine exists only when processRepos is not
\* running and has left no goroutine behind: main stands in processCommits
\* or after it, and if processRepos was to run its summary is logged; so
\* the units of both kinds in flight are together never more than N
C16_PoolsNeverOverlap ==
  /\ (DOMAIN dbUnits # {}) =>
       /\ pc \in {"processCommits_dbs", "processCommits_recv",
                   "processCommits_drain", "main_end", "done"}
       /\ InFlightRepos = {}
       /\ units = EmptyMap
       /\ ctx.ProcessRepos => (Cardinality(SummaryLines) = 1)
  /\ (DOMAIN units # {}) => (DOMAIN dbUnits = {})
  /\ Cardinality(InFlightRepos) + Cardinality(InFlightDBs) <= ctx.NCPUs

\* two shard scanners are in flight after processRepos has synced three
\* repositories and returned
C16_Witness ==
  /\ ctx.ProcessRepos
  /\ ctx.NCPUs = 2
  /\ Cardinality(InFlightDBs) = 2
  /\ \E k \in 0..3 : out.log = << <<"Sucesfully processed ", k, "/", 3, " repos\n">> >>

\* C17: getRepos holds one connection per shard it has visited at most, a
\* shard still to visit is reached with no earlier connection open, and no
\* connection is open once getRepos has returned
C17_ConnectionClosedAfterUse ==
  /\ cons \subseteq dbs
  /\ (pc = "getRepos_dbs" /\ grTodo # {}) => (cons = {})
  /\ (pc \notin {"getRepos", "getRepos_dbs"}) => (cons = {})

\* processRepo goroutines that are at work on their directory: started and
\* not yet through with their command
Operating == {g \in DOMAIN units : units[g].pc \in {"start", "clone", "pull"}}

\* C18: no two processRepo goroutines are at work on the same local
\* directory at the same time (stated for the goroutines of well-formed
\* names, the only ones the index is meant to hold)
C18_NoSharedDirectory ==
  \A g, h \in Operating :
    (g # h /\ WellFormed(units[g].orgRepo) /\ WellFormed(units[h].orgRepo)) =>
      (Clean(units[g].rwd) # Clean(units[h].rwd))

\* C19: a processCommitsDB goroutine has no connection before it opens its
\* own, holds it and its row set open while it reads the rows, and has
\* closed both when it stands in its send and after; its channel carries
\* at most one signal, and exactly one, its own, once it has ended
C19_ClosedBeforeSignal ==
  \A g \in DOMAIN dbUnits :
    LET u == dbUnits[g]
    IN /\ (u.pc = "start") => (u.con = "none" /\ u.rows = "none")
       /\ (u.pc = "scan") => (u.con = "open" /\ u.rows = "open")
       /\ (u.pc \in {"send", "done"}) => (u.con = "closed" /\ u.rows = "closed")
       /\ \A h \in DOMAIN dbUnits : (h # g) => (dbUnits[h].ch # u.ch)
       /\ (u.pc # "done") => (recvd[u.ch] = <<>>)
       /\ (u.pc = "done") => (recvd[u.ch] = << [from |-> g, val |-> TRUE] >>)

\* one scanner has signalled and was received, another stands in its send,
\* both with connection and row set closed
C19_Witness ==
  \E g, h \in DOMAIN dbUnits :
    /\ dbUnits[g].pc = "done" /\ dbUnits[g].con = "closed"
    /\ recvd[dbUnits[g].ch] = << [from |-> g, val |-> TRUE] >>
    /\ dbUnits[h].pc = "send" /\ dbUnits[h].con = "closed"
    /\ dbUnits[h].rows = "closed"
    /\ recvd[dbUnits[h].ch] = <<>>

\* results processRepos has received
ReceivedRepos == {c \in DOMAIN recvd : recvd[c] # <<>>}

\* results received that were the empty string
ReceivedFailures == {c \in ReceivedRepos : recvd[c][1].val = <<>>}

\* C20: between the steps of processRepos the attempted counter is the
\* number of goroutines started, and is the number of results received plus
\* the number of channels still to receive from; the success collection
\* holds one entry per non-empty result received; at the return the counter
\* is K and successes plus failures are K
C20_Accounting ==
  /\ (pc \in {"processRepos_orgs", "processRepos_repos", "processRepos_recv",
               "processRepos_drain", "processRepos_ret"}) =>
       /\ checked = Cardinality(DOMAIN units)
       /\ checked = Cardinality(ReceivedRepos) + Cardinality(InFlightRepos)
       /\ Len(allOkRepos) <= Cardinality(ReceivedRepos)
       /\ Len(allOkRepos) + Cardinality(ReceivedFailures) =
            Cardinality(ReceivedRepos)
  /\ (pc \in {"processRepos_orgs", "processRepos_repos", "processRepos_recv"}) =>
       (checked = Cardinality(ReceivedRepos) + Len(chanPool))
  /\ (pc = "processRepos_drain") =>
       (checked = Cardinality(ReceivedRepos) + Len(chanPool) - (drainIdx - 1))
  /\ (pc = "processRepos_ret") =>
       /\ checked = TotalRepos
       /\ Len(allOkRepos) + Cardinality(ReceivedFailures) = TotalRepos

\* N = 2 in the loop: three started, one result received and it was a
\* failure, two in the window
C20_Witness ==
  /\ pc = "processRepos_recv"
  /\ thrN = 2
  /\ checked = 3
  /\ Cardinality(ReceivedRepos) = 1
  /\ Cardinality(ReceivedFailures) = 1
  /\ Len(chanPool) = 2
  /\ allOkRepos = <<>>

====
